---- MODULE Spec2Model ----
(***************************************************************************)
(* bestgres.js: the transaction pipelines built by bestgres.transaction    *)
(* and bestgres.newTransactionMethod, run by async.waterfall against a     *)
(* pg-transaction handle.                                                  *)
(*                                                                         *)
(* A JavaScript function value is a record [fn, this, arg, idx]: fn names  *)
(* the function, this is the receiver it was bound to (NoThis while        *)
(* unbound), and a caller's step is told from the others by the argument   *)
(* it came from (arg) and its place in that argument's array (idx).  A     *)
(* data object (the context) is named by the number of the invocation it   *)
(* was passed to.  A Transaction handle is named by a number: handle 0 is  *)
(* the one made at bestgres.js:72, handle i the one made at                *)
(* bestgres.js:57 by invocation i.                                         *)
(***************************************************************************)
EXTENDS Integers, Sequences, FiniteSets, TLC

\* Bounds of the model.
NumInv == 2      \* invocations of the built pipeline function
MaxArgs == 2     \* arguments passed to the builder
MaxSteps == 1    \* step functions in one array argument
MaxCalls == 3    \* calls of bestgres.newConditions
MaxRows == 2     \* rows of a query result

Invocations == 1 .. NumInv
Handles == 0 .. NumInv

Null == "null"
Undefined == "undefined"
NoThis == 0

Fn(name) == [fn |-> name, this |-> NoThis, arg |-> 0, idx |-> 0]

\* The j-th function of the array that is argument a, or the j-th function
\* of the array the generator that is argument a returned.  Every step
\* does this.x = 1 and this.returnValue = "r" and then calls its
\* continuation, or calls its continuation with an error.
Step(a, j) == [fn |-> "step", this |-> NoThis, arg |-> a, idx |-> j]

SeqsUpTo(S, n) == UNION {[1 .. k -> S] : k \in 0 .. n}

\* An argument of the builder: an array of so many step functions, or a
\* generator function.  (An empty array adds nothing to passedSteps: the
\* pipeline built from it is the one built without it.)
ArgShapes == {[type |-> "array", len |-> n] : n \in 1 .. MaxSteps}
                 \cup {[type |-> "function", len |-> 0]}
ArgLists == SeqsUpTo(ArgShapes, MaxArgs)

\* The clients bestgres.init is called with.
Clients == {"c1", "c2"}

VARIABLES
    _client,    \* the client stored by bestgres.init
    method,     \* which builder made the pipeline function
    args,       \* the builder's arguments
    call,       \* call[i]: the closure of invocation i
    data,       \* data[i]: the context object passed to invocation i
    tx,         \* tx[h]: what Transaction handle h has been asked so far
    callback,   \* callback[i]: the invocations of the completion callback of i
    ran,        \* ran[i]: what invocation i did and saw, in order: a handle
                \* operation called ("issue"), a generator run ("generate"),
                \* a caller's step started ("call"), a step or a handle
                \* operation calling back ("return"), a step throwing ("throw")
    _conditions,    \* the registry of WHERE clause generators, by name
    registered,     \* the objects bestgres.newConditions was called with, in order
    guard,      \* the callback bestgres.guard returned: its options, the
                \* (err, result) it is called with, and whether it was called
    cb          \* the invocations of the callback bestgres.guard wrapped

pipelineVars == <<_client, method, args, call, data, tx, callback, ran>>
conditionVars == <<_conditions, registered>>
guardVars == <<guard, cb>>

vars == <<pipelineVars, conditionVars, guardVars>>

\* The mutable part of the state, as one record the operators below update.
World == [call |-> call, data |-> data, tx |-> tx, callback |-> callback, ran |-> ran]

Becomes(w) ==
    /\ call' = w.call
    /\ data' = w.data
    /\ tx' = w.tx
    /\ callback' = w.callback
    /\ ran' = w.ran
    /\ UNCHANGED <<_client, method, args, conditionVars, guardVars>>

----------------------------------------------------------------------------
\* Function.prototype.bind: a bound function keeps its first receiver.
Bind(f, d) == IF f.this = NoThis THEN [f EXCEPT !.this = d] ELSE f

BindAll(fns, d) == [k \in 1 .. Len(fns) |-> Bind(fns[k], d)]

RECURSIVE Concat(_)
Concat(ss) == IF ss = <<>> THEN <<>> ELSE Head(ss) \o Concat(Tail(ss))

Event(ev, f, on, name, x, err) ==
    [ev |-> ev, f |-> f, on |-> on, name |-> name, x |-> x, err |-> err]

Ran(w, i, ev, f, x, err) ==
    [w EXCEPT !.ran[i] = Append(@, Event(ev, f, -1, "", x, err))]

\* A call op(cb) or op(name, cb) on handle h, made by invocation i.  The
\* handle keeps the client it was made for, who called it, how often begin
\* was called, whether commit or rollback has been called (closed) and
\* whether anything was called after that (late).
TxCall(w, h, op, name, i) ==
    [w EXCEPT !.tx[h] = [client |-> @.client,
                         by |-> @.by \cup {i},
                         begins |-> @.begins + (IF op = "begin" THEN 1 ELSE 0),
                         closed |-> @.closed \/ op \in {"commit", "rollback"},
                         late |-> @.late \/ @.closed],
              !.ran[i] = Append(@, Event("issue", Fn(op), h, name, -1, Null))]

\* callback(err) and callback(null, val) of the caller of invocation i.
Callback(w, i, err, val, nargs) ==
    [w EXCEPT !.callback[i] = Append(@, [err |-> err, val |-> val, nargs |-> nargs]),
              !.call[i].pc = "done"]

\* What the generator function that is argument a returns, called with
\* receiver d: one step when this.x is 1, no step otherwise.
GeneratorReturn(w, a, d) ==
    IF w.data[d].x = 1 THEN <<Step(a, 1)>> ELSE <<>>

\* fn.call(data) / el.bind(data)(): runs the generator that is argument a
\* with receiver data[i]; the generator reads this.x.
Generate(w, i, a) ==
    Ran(w, i, "generate", [fn |-> "generator", this |-> i, arg |-> a, idx |-> 0],
        w.data[i].x, Null)

RECURSIVE GenerateAll(_, _, _)
GenerateAll(w, i, as) ==
    IF as = <<>> THEN w ELSE GenerateAll(Generate(w, i, Head(as)), i, Tail(as))

\* The arguments of a type, as the places they have in args.
ArgsOfType(t) == SelectSeq([a \in 1 .. Len(args) |-> a], LAMBDA a : args[a].type = t)

----------------------------------------------------------------------------
\* bestgres.js:73-76 and 61-62: the steps that open the transaction.
preliminarySteps == <<Fn("begin"), Fn("savepoint")>>

\* bestgres.js:83: the array arguments, concatenated in argument order.
passedSteps ==
    Concat([k \in 1 .. Len(ArgsOfType("array")) |->
              [j \in 1 .. args[ArgsOfType("array")[k]].len |->
                 Step(ArgsOfType("array")[k], j)]])

\* bestgres.js:84: the function arguments, in argument order.
generatorFns == ArgsOfType("function")

\* Array.prototype.reduce called with (memo, arr) => memo.concat(arr, [])
\* and no initial value: a TypeError on an empty array, the only element
\* of a one-element array, the concatenation otherwise.
reduce(arrs) ==
    IF arrs = <<>>
    THEN [threw |-> TRUE, value |-> <<>>]
    ELSE [threw |-> FALSE, value |-> Concat(arrs)]

\* bestgres.js:98: every generator function called once with the data
\* object as receiver, and what they returned reduced to one array.
dynamicSteps(w, i) ==
    reduce([k \in 1 .. Len(generatorFns) |-> GeneratorReturn(w, generatorFns[k], i)])

\* bestgres.js:16-28: the function rollback(tx, callback) returns, called
\* with (err, val): rolls back to the savepoint on an error and commits
\* otherwise; the handle's answer is awaited.
rollback(w, i, err, val) ==
    IF err # Null
    THEN TxCall([w EXCEPT !.call[i].pc = "rollback", !.call[i].err = err],
                w.call[i].tx, "rollback", "virgin", i)
    ELSE TxCall([w EXCEPT !.call[i].pc = "commit", !.call[i].val = val],
                w.call[i].tx, "commit", "", i)

\* A rollback whose own error takes the place of the step's error.
rollbackCallbackMasks(w, i, e) ==
    Callback(w, i, IF e # Null THEN e ELSE w.call[i].err, Undefined, 1)

\* bestgres.js:19-21: the callback given to tx.rollback, called with e.
rollbackCallback(w, i, e) == Callback(w, i, w.call[i].err, Undefined, 1)

\* A commit callback that hands the commit's error to the caller.
commitCallbackForwards(w, i, e) == Callback(w, i, e, w.call[i].val, 2)

\* bestgres.js:23-25: the callback given to tx.commit.
commitCallback(w, i, e) == Callback(w, i, Null, w.call[i].val, 2)

RECURSIVE waterfall(_, _, _, _), stepsCallback(_, _, _, _)

\* The final callback of the waterfall invocation i is running.
done(w, i, err, result) ==
    IF w.call[i].stage = "steps"
    THEN stepsCallback(w, i, err, result)
    ELSE rollback(w, i, err, result)

\* async.waterfall, about to run task pos of call[i].fns with the result
\* of the task before it: the tasks of this library that call back at once
\* (_keepItMoving, _wrapItUp) are run through; a task that waits for the
\* handle or for a caller's step leaves the invocation at that task.
waterfall(w, i, pos, result) ==
    IF pos > Len(w.call[i].fns)
    THEN done(w, i, Null, result)
    ELSE LET f == w.call[i].fns[pos]
             at == [w EXCEPT !.call[i].pos = pos, !.call[i].pc = "task"]
         IN  CASE f.fn = "begin" -> TxCall(at, w.call[i].tx, "begin", "", i)
               [] f.fn = "savepoint" -> TxCall(at, w.call[i].tx, "savepoint", "virgin", i)
               [] f.fn = "_keepItMoving" -> waterfall(at, i, pos + 1, Null)
               [] f.fn = "_wrapItUp" ->
                    waterfall(at, i, pos + 1, w.data[f.this].returnValue)
               [] OTHER -> Ran(at, i, "call", f, -1, Null)

\* bestgres.js:98-110: the generators are run, and the waterfall of
\* _keepItMoving, the steps they returned and _wrapItUp is started with
\* rollback(tx, callback) as its callback.  The TypeError of line 98 leaves
\* the invocation abandoned, its callback never called.
finalSteps(w, i) ==
    IF dynamicSteps(w, i).threw
    THEN [w EXCEPT !.call[i].pc = "threw"]
    ELSE waterfall([GenerateAll(w, i, generatorFns)
                      EXCEPT !.call[i].fns = <<Fn("_keepItMoving")>>
                                               \o dynamicSteps(w, i).value
                                               \o <<Bind(Fn("_wrapItUp"), i)>>,
                             !.call[i].stage = "final"],
                   i, 1, Undefined)

\* A callback that hands every error to rollback(tx, callback).
stepsCallbackRollsBack(w, i, err, result) ==
    IF err # Null THEN rollback(w, i, err, result) ELSE finalSteps(w, i)

\* bestgres.js:91-111: the callback of the waterfall of the bound
\* preliminary and passed steps.
stepsCallback(w, i, err, result) ==
    IF err # Null THEN Callback(w, i, err, Undefined, 1) ELSE finalSteps(w, i)

\* A continuation that goes on to the next task whatever the task reported.
nextIgnoresError(w, i, err, result) ==
    waterfall(w, i, w.call[i].pos + 1, result)

\* The continuation async.waterfall hands to the running task, called with
\* (err, result).
next(w, i, err, result) ==
    IF err # Null
    THEN done(w, i, err, Undefined)
    ELSE waterfall(w, i, w.call[i].pos + 1, result)

\* A pipeline function that runs the generators as soon as it is called,
\* before any step has run.
transactionBindsEarly(w, i) ==
    waterfall([GenerateAll(w, i, generatorFns)
                 EXCEPT !.call[i].tx = 0,
                        !.call[i].fns = BindAll(preliminarySteps \o passedSteps, i),
                        !.call[i].stage = "steps"],
              i, 1, Undefined)

\* bestgres.js:86-91: the function bestgres.transaction returns, called
\* with (data, callback).  tx is the handle made when the pipeline was
\* built (bestgres.js:72).
transaction(w, i) ==
    waterfall([w EXCEPT !.call[i].tx = 0,
                        !.call[i].fns = BindAll(preliminarySteps \o passedSteps, i),
                        !.call[i].stage = "steps"],
              i, 1, Undefined)

\* bestgres.js:58-59: the reduction of the arguments from place a on: a
\* function argument is called at once, bound to data, and what it returns
\* is concatenated; an array argument is concatenated.
RECURSIVE newFns(_, _, _)
newFns(w, i, a) ==
    IF a > Len(args) THEN <<>>
    ELSE (IF args[a].type = "function"
          THEN GeneratorReturn(w, a, i)
          ELSE [j \in 1 .. args[a].len |-> Step(a, j)]) \o newFns(w, i, a + 1)

\* bestgres.js:56-66: the function bestgres.newTransactionMethod returns,
\* called with (data, callback).  tx is a new handle, made for the client
\* stored at this moment.
newTransactionMethod(w, i) ==
    waterfall([GenerateAll(w, i, generatorFns)
                 EXCEPT !.call[i].tx = i,
                        !.tx[i].client = _client,
                        !.call[i].fns = BindAll(preliminarySteps \o newFns(w, i, 1)
                                                  \o <<Fn("_wrapItUp")>>, i),
                        !.call[i].stage = "final"],
              i, 1, Undefined)

\* The body of a caller's step function with receiver this: this.x = 1 and
\* this.returnValue = "r".  With no receiver the assignments do not reach
\* a data object.
StepBody(w, f) ==
    IF f.this = NoThis THEN w
    ELSE [w EXCEPT !.data[f.this] = [x |-> 1, returnValue |-> "r"]]

----------------------------------------------------------------------------
InitData == [x |-> 0, returnValue |-> "x"]

InitCall == [pc |-> "idle", tx |-> 0, fns |-> <<>>, pos |-> 0, stage |-> "steps",
             err |-> Null, val |-> Undefined]

\* A handle nothing was called on; client is "none" until new
\* Transaction(_client) makes it.
InitTx == [client |-> "none", by |-> {}, begins |-> 0, closed |-> FALSE, late |-> FALSE]

----------------------------------------------------------------------------
\* bestgres.guard.  A JavaScript value is a record tagged by its type.

JsNull == [t |-> "null"]
JsUndefined == [t |-> "undefined"]
Num(n) == [t |-> "number", n |-> n]
Str(s) == [t |-> "string", s |-> s]
Obj(row) == [t |-> "object", row |-> row]
Arr(items) == [t |-> "array", items |-> items]

\* The rows of a query result, each with the columns a and total_count.
Rows == {[a |-> 1, total_count |-> 5], [a |-> 2, total_count |-> 7]}

\* What the wrapped callback is called with as result: nothing (null or
\* undefined), or a result object with its rows and rowCount.
Results ==
    {JsNull, JsUndefined}
        \cup {[t |-> "result", rows |-> r, rowCount |-> Len(r)] : r \in SeqsUpTo(Rows, MaxRows)}

\* The own properties of the handlers object (bestgres.js:119-138), and a
\* property every object literal inherits from Object.prototype.
HandlerNames == {"rows", "first", "count", "propFirst", "pluck", "dynatable", "autocomplete"}
InheritedNames == {"toString"}

\* The options bestgres.guard is called with: none, or an object whose
\* type and prop are set or not (Undefined) and whose onlyErr is true or
\* not.
NoOptions == [given |-> FALSE, type |-> Undefined, prop |-> Undefined, onlyErr |-> FALSE]
GuardOptions ==
    {NoOptions}
        \cup [given : {TRUE}, type : HandlerNames \cup InheritedNames \cup {"bogus", Undefined},
             prop : {Undefined, "a", "zz"}, onlyErr : BOOLEAN]

\* bestgres.js:117: options = options || { type : 'rows', onlyErr : false }.
options(given) ==
    IF given.given THEN given
    ELSE [given |-> TRUE, type |-> "rows", prop |-> Undefined, onlyErr |-> FALSE]

\* val as a condition: null and undefined are false, an object is true.
Truthy(val) == val.t \notin {"null", "undefined"}

\* obj[prop] of a row.
Get(row, prop) ==
    CASE prop = "a" -> Num(row.a)
      [] prop = "total_count" -> Num(row.total_count)
      [] OTHER -> JsUndefined

\* val.rows[k] for the k-th row, counted from 1: undefined past the end.
RowAt(val, k) == IF k <= Len(val.rows) THEN Obj(val.rows[k]) ELSE JsUndefined

RowObjects(val) == Arr([k \in 1 .. Len(val.rows) |-> Obj(val.rows[k])])
Plucked(val, prop) == Arr([k \in 1 .. Len(val.rows) |-> Get(val.rows[k], prop)])

Returns(v) == [threw |-> FALSE, value |-> v]
TypeError == [threw |-> TRUE, value |-> JsUndefined]

\* bestgres.js:120.
rows(val, prop) == Returns(IF Truthy(val) THEN RowObjects(val) ELSE JsNull)

\* bestgres.js:121.
first(val, prop) == Returns(IF Truthy(val) THEN RowAt(val, 1) ELSE JsNull)

\* bestgres.js:122.
count(val, prop) == Returns(IF Truthy(val) THEN Num(val.rowCount) ELSE JsNull)

\* bestgres.js:123.
propFirst(val, prop) ==
    Returns(IF Truthy(val) /\ Truthy(RowAt(val, 1)) THEN Get(val.rows[1], prop) ELSE JsNull)

\* bestgres.js:124: val.rows of null or undefined is a TypeError.
pluck(val, prop) == IF Truthy(val) THEN Returns(Plucked(val, prop)) ELSE TypeError

\* bestgres.js:125-129.
dynatable(val, prop) ==
    Returns(IF Truthy(val) /\ Truthy(RowAt(val, 1))
            THEN [t |-> "dynatable", records |-> RowObjects(val),
                  queryRecordCount |-> Num(Len(val.rows)),
                  totalRecordCount |-> Get(val.rows[1], "total_count")]
            ELSE JsNull)

\* An autocomplete handler that answers null like its siblings.
autocompleteNull(val, prop) ==
    Returns(IF ~Truthy(val) \/ ~Truthy(RowAt(val, 1))
            THEN JsNull
            ELSE [t |-> "autocomplete",
                  suggestions |-> IF prop = Undefined THEN RowObjects(val)
                                  ELSE Plucked(val, prop)])

\* bestgres.js:130-137.
autocomplete(val, prop) ==
    Returns(IF ~Truthy(val) \/ ~Truthy(RowAt(val, 1))
            THEN [t |-> "autocomplete", suggestions |-> Arr(<<>>)]
            ELSE [t |-> "autocomplete",
                  suggestions |-> IF prop = Undefined THEN RowObjects(val)
                                  ELSE Plucked(val, prop)])

\* bestgres.js:141: handlers[options.type](result).  An own property is
\* the handler; toString is Object.prototype.toString, which answers
\* "[object Object]" for the handlers object; any other name, and no name,
\* is undefined, and calling undefined is a TypeError.
handlers(type, val, prop) ==
    CASE type = "rows" -> rows(val, prop)
      [] type = "first" -> first(val, prop)
      [] type = "count" -> count(val, prop)
      [] type = "propFirst" -> propFirst(val, prop)
      [] type = "pluck" -> pluck(val, prop)
      [] type = "dynatable" -> dynatable(val, prop)
      [] type = "autocomplete" -> autocomplete(val, prop)
      [] type \in InheritedNames -> Returns(Str("[object Object]"))
      [] OTHER -> TypeError

\* cb(err) and cb(err, value).
Cb(g, c, err, value, nargs) ==
    [guard |-> [g EXCEPT !.pc = "returned"],
     cb |-> Append(c, [err |-> err, val |-> value, nargs |-> nargs])]

Throw(g, c) == [guard |-> [g EXCEPT !.pc = "threw"], cb |-> c]

\* A wrapped callback that applies the handler before it looks at onlyErr.
wrappedHandlesFirst(g, c) ==
    IF handlers(options(g.options).type, g.result, options(g.options).prop).threw
    THEN Throw(g, c)
    ELSE IF options(g.options).onlyErr
    THEN Cb(g, c, g.err, JsUndefined, 1)
    ELSE Cb(g, c, g.err,
            handlers(options(g.options).type, g.result, options(g.options).prop).value, 2)

\* bestgres.js:139-142: the function bestgres.guard returns, called with
\* (err, result).
wrapped(g, c) ==
    IF options(g.options).onlyErr
    THEN Cb(g, c, g.err, JsUndefined, 1)
    ELSE IF handlers(options(g.options).type, g.result, options(g.options).prop).threw
    THEN Throw(g, c)
    ELSE Cb(g, c, g.err,
            handlers(options(g.options).type, g.result, options(g.options).prop).value, 2)

\* bestgres.guard is not used.
NoGuard ==
    /\ guard = [options |-> NoOptions, err |-> Null, result |-> JsNull, pc |-> "wrapped"]
    /\ cb = <<>>

\* The callback bestgres.guard(cb, options) returned is called with
\* (err, result).
Wrapped ==
    /\ guard.pc = "wrapped"
    /\ guard' = wrapped(guard, cb).guard
    /\ cb' = wrapped(guard, cb).cb
    /\ UNCHANGED <<pipelineVars, conditionVars>>

----------------------------------------------------------------------------
\* The condition registry.

\* The names conditions are registered under, and the generator functions
\* registered.
ConditionNames == {"byId", "byName"}
Generators == {"g1", "g2"}

\* The objects bestgres.newConditions is called with: some names, each
\* with a generator function.
ConditionObjects == UNION {[S -> Generators] : S \in SUBSET ConditionNames}

\* A registry that keeps the generator a name was first registered with.
newConditionsFirstWins(conditions, obj) ==
    [key \in ConditionNames |->
        IF key \in DOMAIN obj /\ conditions[key] = Undefined
        THEN obj[key]
        ELSE conditions[key]]

\* bestgres.js:149-151: for (var key in obj) _conditions[key] = obj[key].
newConditions(conditions, obj) ==
    [key \in ConditionNames |->
        IF key \in DOMAIN obj THEN obj[key] ELSE conditions[key]]

\* bestgres.js:146: var _conditions = {}.
InitConditions ==
    /\ _conditions = [key \in ConditionNames |-> Undefined]
    /\ registered = <<>>

\* bestgres.newConditions(obj) is called.
NewConditions(obj) ==
    /\ Len(registered) < MaxCalls
    /\ _conditions' = newConditions(_conditions, obj)
    /\ registered' = Append(registered, obj)
    /\ UNCHANGED <<pipelineVars, guardVars>>

ConditionsNext == \E obj \in ConditionObjects : NewConditions(obj)

----------------------------------------------------------------------------
\* bestgres.init("c1") was called and then the pipeline function was
\* built: bestgres.transaction has made handle 0 for that client
\* (bestgres.js:72), bestgres.newTransactionMethod has made no handle yet.
Init ==
    /\ InitConditions
    /\ NoGuard
    /\ _client = "c1"
    /\ method \in {"transaction", "newTransactionMethod"}
    /\ args \in ArgLists
    /\ call = [i \in Invocations |-> InitCall]
    /\ data = [i \in Invocations |-> InitData]
    /\ tx = [h \in Handles |->
               IF h = 0 /\ method = "transaction"
               THEN [InitTx EXCEPT !.client = _client]
               ELSE InitTx]
    /\ callback = [i \in Invocations |-> <<>>]
    /\ ran = [i \in Invocations |-> <<>>]

Running(i) == call[i].fns[call[i].pos]

\* The pipeline function is called with (data[i], callback[i]).
Invoke(i) ==
    /\ call[i].pc = "idle"
    /\ i > 1 => call[i - 1].pc # "idle"
    /\ Becomes(IF method = "transaction"
               THEN transaction(World, i)
               ELSE newTransactionMethod(World, i))

\* tx.begin calls back with e.
BeginReturns(i, e) ==
    /\ call[i].pc = "task"
    /\ Running(i).fn = "begin"
    /\ Becomes(next(Ran(World, i, "return", Running(i), -1, e), i, e, Undefined))

\* tx.savepoint calls back with e.
SavepointReturns(i, e) ==
    /\ call[i].pc = "task"
    /\ Running(i).fn = "savepoint"
    /\ Becomes(next(Ran(World, i, "return", Running(i), -1, e), i, e, Undefined))

\* A caller's step runs its body and calls its continuation with no error,
\* or calls it with an error.
StepReturns(i, e) ==
    /\ call[i].pc = "task"
    /\ Running(i).fn = "step"
    /\ Becomes(IF e = Null
               THEN next(Ran(StepBody(World, Running(i)), i, "return", Running(i), -1, Null),
                         i, Null, Undefined)
               ELSE next(Ran(World, i, "return", Running(i), -1, e), i, e, Undefined))

\* A caller's step written in strict mode and called with no receiver: the
\* assignment to a property of undefined throws a TypeError out of the
\* waterfall, and the invocation is abandoned.
StepThrows(i) ==
    /\ call[i].pc = "task"
    /\ Running(i).fn = "step"
    /\ Running(i).this = NoThis
    /\ Becomes(Ran([World EXCEPT !.call[i].pc = "threw"], i, "throw", Running(i), -1, Null))

\* tx.commit calls back with e.
CommitReturns(i, e) ==
    /\ call[i].pc = "commit"
    /\ Becomes(commitCallback(Ran(World, i, "return", Fn("commit"), -1, e), i, e))

\* tx.rollback calls back with e.
RollbackReturns(i, e) ==
    /\ call[i].pc = "rollback"
    /\ Becomes(rollbackCallback(Ran(World, i, "return", Fn("rollback"), -1, e), i, e))

Next ==
    \E i \in Invocations :
        \/ Invoke(i)
        \/ \E e \in {Null, "EBegin"} : BeginReturns(i, e)
        \/ \E e \in {Null, "ESavepoint"} : SavepointReturns(i, e)
        \/ \E e \in {Null, "EStep"} : StepReturns(i, e)
        \/ StepThrows(i)
        \/ \E e \in {Null, "ECommit"} : CommitReturns(i, e)
        \/ \E e \in {Null, "ERollback"} : RollbackReturns(i, e)

Spec == Init /\ [][Next]_vars

\* bestgres.js:44-46: bestgres.init(client).
init(client) ==
    /\ _client' = client
    /\ UNCHANGED <<method, args, call, data, tx, callback, ran, conditionVars, guardVars>>

\* The pipelines, with bestgres.init called again at any moment.
ClientNext ==
    \/ Next
    \/ \E client \in Clients : init(client)

ClientSpec == Init /\ [][ClientNext]_vars

\* No pipeline is built or called.
NoPipeline ==
    /\ _client = "c1"
    /\ method = "transaction"
    /\ args = <<>>
    /\ call = [i \in Invocations |-> InitCall]
    /\ data = [i \in Invocations |-> InitData]
    /\ tx = [h \in Handles |-> InitTx]
    /\ callback = [i \in Invocations |-> <<>>]
    /\ ran = [i \in Invocations |-> <<>>]

\* bestgres.guard(cb, options) has returned its callback, which is about
\* to be called with (err, result).
GuardInit ==
    /\ NoPipeline
    /\ InitConditions
    /\ guard \in [options : GuardOptions, err : {Null, "E"}, result : Results,
                   pc : {"wrapped"}]
    /\ cb = <<>>

GuardSpec == GuardInit /\ [][Wrapped]_vars

\* The calls of bestgres.newConditions.
ConditionsInit == NoPipeline /\ InitConditions /\ NoGuard

ConditionsSpec == ConditionsInit /\ [][ConditionsNext]_vars

----------------------------------------------------------------------------
\* What the claims read off the state.

Started(i) == call[i].pc # "idle"

\* Invocation i waits for a handle operation or a step to call back.
Pending(i) == call[i].pc \in {"task", "commit", "rollback"}

Positions(i, ev) == {k \in 1 .. Len(ran[i]) : ran[i][k].ev = ev}

\* The handle operation op called back to invocation i with an error.
OpFailed(i, ops) ==
    \E k \in Positions(i, "return") : ran[i][k].f.fn \in ops /\ ran[i][k].err # Null

PreludeFailed(i) == OpFailed(i, {"begin", "savepoint"})
StepFailed(i) == OpFailed(i, {"step"})

\* Nothing reported an error to invocation i and no step threw.
NoError(i) == \A k \in 1 .. Len(ran[i]) : ran[i][k].err = Null /\ ran[i][k].ev # "throw"

\* The handle operations invocation i called and the steps it started, in
\* order, as function values.
Did(i) ==
    LET es == SelectSeq(ran[i], LAMBDA e : e.ev \in {"issue", "call"})
    IN  [k \in 1 .. Len(es) |-> es[k].f]

\* How often invocation i called op on its handle.
Issued(i, op) == Cardinality({k \in Positions(i, "issue") : ran[i][k].f.fn = op})

\* C1: a pipeline of bestgres.transaction built from arrays only, whose
\* begin, savepoint, steps and commit all succeed, calls begin, savepoint,
\* the steps in argument order and commit on its handle, never rollback,
\* and calls the completion callback once with (null, returnValue).
C1_StaticPipelineCommits ==
    \A i \in Invocations :
        (/\ method = "transaction"
         /\ generatorFns = <<>>
         /\ Started(i) /\ ~Pending(i) /\ NoError(i))
        => /\ Did(i) = <<Fn("begin"), Fn("savepoint")>> \o BindAll(passedSteps, i)
                          \o <<Fn("commit")>>
           /\ callback[i] = <<[err |-> Null, val |-> data[i].returnValue, nargs |-> 2]>>

\* C2: in a pipeline of bestgres.transaction, once a step, passed or
\* generated, has reported an error and the completion callback has fired,
\* the handle has seen exactly one rollback('virgin') and no commit.
C2_FailedStepRollsBack ==
    \A i \in Invocations :
        (method = "transaction" /\ StepFailed(i) /\ callback[i] # <<>>)
        => /\ Issued(i, "rollback") = 1
           /\ \A k \in Positions(i, "issue") :
                  ran[i][k].f.fn = "rollback" => ran[i][k].name = "virgin"
           /\ Issued(i, "commit") = 0

\* C3: when a step has failed with E, the completion callback is called
\* once, with E alone, as soon as the rollback (if one was started) has
\* called back, whatever the rollback reported; it is never called twice.
C3_StepErrorReachesCaller ==
    \A i \in Invocations :
        /\ Len(callback[i]) <= 1
        /\ StepFailed(i) =>
              IF call[i].pc = "rollback"
              THEN callback[i] = <<>>
              ELSE callback[i] = <<[err |-> "EStep", val |-> Undefined, nargs |-> 1]>>

C3_Witness ==
    \E i \in Invocations :
        /\ StepFailed(i)
        /\ OpFailed(i, {"rollback"})
        /\ callback[i] # <<>>

\* C4: in a pipeline of bestgres.transaction, when begin or savepoint has
\* failed with E, no step and no generator has run, neither rollback nor
\* commit has been called, and the completion callback has been called
\* once with E alone.
C4_PreludeFailureAborts ==
    \A i \in Invocations :
        (method = "transaction" /\ PreludeFailed(i))
        => /\ Positions(i, "call") = {} /\ Positions(i, "generate") = {}
           /\ Issued(i, "rollback") = 0 /\ Issued(i, "commit") = 0
           /\ \E k \in Positions(i, "return") :
                  /\ ran[i][k].err # Null
                  /\ callback[i] = <<[err |-> ran[i][k].err, val |-> Undefined, nargs |-> 1]>>

C4_Witness ==
    \E i \in Invocations :
        /\ method = "transaction"
        /\ passedSteps # <<>> /\ generatorFns # <<>>
        /\ OpFailed(i, {"savepoint"})
        /\ callback[i] # <<>>

\* C5: two invocations of a pipeline of bestgres.transaction never call
\* the same Transaction handle.
C5_OwnHandlePerInvocation ==
    method = "transaction" => \A h \in Handles : Cardinality(tx[h].by) <= 1

\* C6: the pipeline of bestgres.transaction built from no step and no
\* generator, called with returnValue 'x' where begin, savepoint and commit
\* succeed, calls begin, savepoint('virgin') and commit and calls the
\* completion callback with (null, 'x').
C6_EmptyPipelineCommits ==
    \A i \in Invocations :
        (/\ method = "transaction"
         /\ passedSteps = <<>> /\ generatorFns = <<>>
         /\ Started(i) /\ ~Pending(i) /\ NoError(i))
        => /\ Did(i) = <<Fn("begin"), Fn("savepoint"), Fn("commit")>>
           /\ callback[i] = <<[err |-> Null, val |-> "x", nargs |-> 2]>>

\* The steps and handle operations that had called back to invocation i
\* before the k-th entry of ran[i].
ReturnedBefore(i, k) ==
    SelectSeq(SubSeq(ran[i], 1, k - 1), LAMBDA e : e.ev = "return")

\* C7: in a pipeline of bestgres.transaction the generators run, each once
\* and in argument order, with the data object as receiver, and only when
\* begin, savepoint and every passed step have called back without error;
\* they read the x the passed steps wrote (1 if there is a passed step),
\* and they have run as soon as the last passed step succeeded.
C7_GeneratorsRunAfterStaticSteps ==
    \A i \in Invocations :
        method = "transaction" =>
            LET gens == SelectSeq(ran[i], LAMBDA e : e.ev = "generate")
                static == BindAll(preliminarySteps \o passedSteps, i)
                returned == SelectSeq(ran[i], LAMBDA e : e.ev = "return")
            IN  /\ gens # <<>> => [k \in 1 .. Len(gens) |-> gens[k].f.arg] = generatorFns
                /\ \A k \in Positions(i, "generate") :
                      LET before == ReturnedBefore(i, k)
                      IN  /\ ran[i][k].f.this = i
                          /\ ran[i][k].x = (IF passedSteps # <<>> THEN 1 ELSE InitData.x)
                          /\ Len(before) = Len(static)
                          /\ \A j \in 1 .. Len(static) :
                                before[j].f = static[j] /\ before[j].err = Null
                /\ (/\ generatorFns # <<>>
                    /\ Len(returned) >= Len(static)
                    /\ \A j \in 1 .. Len(static) : returned[j].err = Null)
                   => gens # <<>>

C7_Witness ==
    \E i \in Invocations :
        /\ method = "transaction"
        /\ \E k \in Positions(i, "generate") : ran[i][k].x = 1 /\ InitData.x = 0

\* C8: once commit or rollback has been called on a Transaction handle,
\* nothing more is called on it, and begin is called on it at most once.
C8_NoCallAfterCommitOrRollback ==
    \A h \in Handles : ~tx[h].late /\ tx[h].begins <= 1

\* C9: in a pipeline of bestgres.transaction every step that is started,
\* passed or generated, is called with the data object as receiver.
C9_StepsCalledOnContext ==
    \A i \in Invocations :
        method = "transaction" =>
            \A k \in Positions(i, "call") : ran[i][k].f.this = i

\* C10: an invocation of a pipeline of bestgres.transaction in which no
\* step throws is waiting for a handle operation or a step to call back,
\* or has called the completion callback exactly once.
C10_RunsToCompletion ==
    \A i \in Invocations :
        (method = "transaction" /\ Started(i) /\ Positions(i, "throw") = {})
        => Pending(i) \/ Len(callback[i]) = 1

\* The handle operations and steps invocation i started ("issue", "call")
\* and their calls of the continuation ("return"), in order.
Progress(i) == SelectSeq(ran[i], LAMBDA e : e.ev \in {"issue", "call", "return"})

\* C18: within one invocation every handle operation or step that was
\* started calls back before the next one is started, so at most one is in
\* progress; and the only thing started after one has reported an error is
\* the rollback.
C18_StrictlySequential ==
    \A i \in Invocations :
        method = "transaction" =>
            LET p == Progress(i)
            IN  \A k \in 1 .. Len(p) :
                    IF k % 2 = 1
                    THEN /\ p[k].ev \in {"issue", "call"}
                         /\ k > 1 => (p[k - 1].err = Null \/ p[k].f.fn = "rollback")
                    ELSE /\ p[k].ev = "return"
                         /\ p[k].f.fn = p[k - 1].f.fn
                         /\ p[k].f.arg = p[k - 1].f.arg
                         /\ p[k].f.idx = p[k - 1].f.idx

C18_Witness ==
    \E i \in Invocations :
        /\ method = "transaction"
        /\ Cardinality(Positions(i, "call")) >= 2
        /\ StepFailed(i)
        /\ call[i].pc = "done"

\* C19: in a pipeline of bestgres.newTransactionMethod, when begin or
\* savepoint has failed, rollback has not been called on the handle, no
\* step has been started, and the completion callback, once called, was
\* called with the error of begin or savepoint.
C19_NewMethodPreludeFailureAborts ==
    \A i \in Invocations :
        (method = "newTransactionMethod" /\ PreludeFailed(i))
        => /\ Issued(i, "rollback") = 0
           /\ Positions(i, "call") = {}
           /\ \A c \in 1 .. Len(callback[i]) :
                  callback[i][c].err \in {"EBegin", "ESavepoint"}

\* The handle operation op has called back to invocation i.
Returned(i, op) == \E k \in Positions(i, "return") : ran[i][k].f.fn = op

\* C20: the completion callback is called with (null, returnValue) only
\* after commit has called back, and it is called so whatever commit
\* reported: the error of commit never reaches the caller.
C20_CommitErrorNotReported ==
    \A i \in Invocations :
        /\ Returned(i, "commit")
              => callback[i] = <<[err |-> Null, val |-> data[i].returnValue, nargs |-> 2]>>
        /\ \A c \in 1 .. Len(callback[i]) :
              /\ callback[i][c].err # "ECommit"
              /\ callback[i][c].err = Null => Returned(i, "commit")

C20_Witness ==
    \E i \in Invocations :
        /\ OpFailed(i, {"commit"})
        /\ callback[i] = <<[err |-> Null, val |-> "r", nargs |-> 2]>>

\* C17: an invocation of a pipeline function uses a Transaction handle
\* made for the client that bestgres.init stored last before the
\* invocation.
C17_HandleFromCurrentClient ==
    [][\A i \in Invocations :
          (call[i].pc = "idle" /\ call'[i].pc # "idle")
          => tx'[call'[i].tx].client = _client]_vars

\* The generator the last of the first n calls of bestgres.newConditions
\* that named key gave for it, Undefined if none of them named it.
RECURSIVE LastRegistered(_, _)
LastRegistered(key, n) ==
    IF n = 0 THEN Undefined
    ELSE IF key \in DOMAIN registered[n] THEN registered[n][key]
    ELSE LastRegistered(key, n - 1)

\* C16: after any calls of bestgres.newConditions, every name has the
\* generator given by the last call that named it; a name no call named is
\* not in the registry, and a name some call named is never removed.
C16_LastWriteWins ==
    \A key \in ConditionNames :
        _conditions[key] = LastRegistered(key, Len(registered))

C16_Witness ==
    /\ Len(registered) = 3
    /\ DOMAIN registered[1] = {"byId", "byName"}
    /\ DOMAIN registered[2] = {"byId"}
    /\ registered[2]["byId"] # registered[1]["byId"]
    /\ DOMAIN registered[3] = {}
    /\ _conditions["byId"] = registered[2]["byId"]
    /\ _conditions["byName"] = registered[1]["byName"]

\* What the claims about bestgres.guard read off the state.
Called == guard.pc # "wrapped"
Absent == ~Truthy(guard.result)
Effective == options(guard.options)

\* C11: called with no result, the wrapped callback hands cb the error it
\* was given and null for the types rows, first, count, propFirst and
\* dynatable, and {suggestions: []} for autocomplete.
C11_AbsentResultDefaults ==
    (/\ Called /\ Absent /\ ~Effective.onlyErr
     /\ Effective.type \in {"rows", "first", "count", "propFirst", "dynatable", "autocomplete"})
    => /\ guard.pc = "returned"
       /\ cb = <<[err |-> guard.err,
                  val |-> IF Effective.type = "autocomplete"
                          THEN [t |-> "autocomplete", suggestions |-> Arr(<<>>)]
                          ELSE JsNull,
                  nargs |-> 2]>>

C11_Witness ==
    /\ Called /\ Absent
    /\ guard.options.given /\ ~guard.options.onlyErr
    /\ guard.options.type = "autocomplete"
    /\ guard.err = "E"
    /\ Len(cb) = 1

\* C12: with type 'first' cb gets null when there is no result or no
\* first row, and the first row otherwise.
C12_FirstRowOrNull ==
    (Called /\ ~Effective.onlyErr /\ Effective.type = "first")
    => /\ guard.pc = "returned"
       /\ Len(cb) = 1
       /\ cb[1].val = (IF Absent THEN JsNull
                       ELSE IF guard.result.rows = <<>> THEN JsNull
                       ELSE Obj(guard.result.rows[1]))

\* C13: with no options, or with options that do not set type, and
\* onlyErr not true, cb gets the rows of the result, null if there is no
\* result.
C13_TypeDefaultsToRows ==
    (Called /\ ~Effective.onlyErr /\ (~guard.options.given \/ guard.options.type = Undefined))
    => /\ guard.pc = "returned"
       /\ cb = <<[err |-> guard.err,
                  val |-> IF Absent THEN JsNull ELSE RowObjects(guard.result),
                  nargs |-> 2]>>

\* C14: with onlyErr true the wrapped callback calls cb once, with the
\* error alone, whatever the type and the result, and never throws.
C14_OnlyErrForwardsErrorOnly ==
    (Called /\ Effective.onlyErr)
    => /\ guard.pc = "returned"
       /\ cb = <<[err |-> guard.err, val |-> JsUndefined, nargs |-> 1]>>

C14_Witness ==
    /\ Called /\ Absent
    /\ guard.options.onlyErr
    /\ guard.options.type \in {"bogus", "pluck"}
    /\ Len(cb) = 1

\* C15: with a type that is none of the seven handlers (and onlyErr not
\* true) the wrapped callback throws and hands cb nothing.
C15_UnknownTypeFailsLoudly ==
    (/\ Called /\ guard.options.given /\ ~guard.options.onlyErr
     /\ guard.options.type \notin HandlerNames)
    => guard.pc = "threw" /\ cb = <<>>

====
